---- MODULE Spec2Model ----
(***************************************************************************)
(* LUXBIN Morse Light encoder (src/luxbin_morse_light.py).                 *)
(*                                                                         *)
(* The model covers FrequencyCombGenerator (constructor, generate_comb)    *)
(* and LuxbinMorseLight (constructor, encode_text_to_morse_light).  The    *)
(* collaborators text_to_luxbin and luxbin_to_wavelengths live in another  *)
(* module (luxbin_quantum_computer); their outputs, the transliterated     *)
(* character sequence `luxbin' and the per-character wavelength array,     *)
(* are the inputs of the Encode action.                                    *)
(*                                                                         *)
(* Representation:                                                         *)
(*  - a character is a one-character string, a Morse pattern a sequence    *)
(*    of the one-character strings "." and "-";                            *)
(*  - wavelengths[i]['wavelength_nm'] is the integer wavelengths[i]; the   *)
(*    collaborator assigns active (positive) wavelengths;                  *)
(*  - floating-point quantities of a comb line (wavelength_nm,             *)
(*    frequency_hz, intensity) are represented by the integers they are    *)
(*    computed from: the frequency shift in units of 1e11 Hz and the base  *)
(*    intensity in tenths; comb_spacing is in tenths of a nanometre and    *)
(*    kerr_coeff in tenths;                                                *)
(*  - a pulse carries frequency_comb through its length num_comb_lines     *)
(*    (0 where the code stores None).                                      *)
(***************************************************************************)
EXTENDS Integers, Sequences, FiniteSets, TLC

VARIABLES
    encoder,      \* the LuxbinMorseLight instance (self)
    luxbin,       \* transliterated characters of the last encode call
    wavelengths,  \* wavelength array of the last encode call
    result,       \* outcome of the last encode call
    gen,          \* a FrequencyCombGenerator built directly by a caller
    genArgs,      \* the arguments its constructor was called with
    comb,         \* outcome of the last generate_comb call on gen
    prev          \* history: inputs and outcome of the encode call before the last

vars == <<encoder, luxbin, wavelengths, result, gen, genArgs, comb, prev>>

(***************************************************************************)
(* Module constants, lines 14-25.                                          *)
(***************************************************************************)
PUMP_WAVELENGTH == 1550
COMB_SPACING == 1
NUM_COMB_LINES == 20
KERR_NONLINEARITY == 15

DOT_DURATION == 5
DASH_DURATION == 15
INTRA_CHAR_GAP == 5
CHAR_GAP == 15
WORD_GAP == 35

\* The wavelength written into a space pulse, line 136.
SPACE_WAVELENGTH == 637

(***************************************************************************)
(* LUXBIN_TO_MORSE, lines 29-48.                                           *)
(***************************************************************************)
LUXBIN_TO_MORSE ==
    "A" :> <<".", "-">> @@ "B" :> <<"-", ".", ".", ".">> @@
    "C" :> <<"-", ".", "-", ".">> @@ "D" :> <<"-", ".", ".">> @@ "E" :> <<".">> @@
    "F" :> <<".", ".", "-", ".">> @@ "G" :> <<"-", "-", ".">> @@
    "H" :> <<".", ".", ".", ".">> @@ "I" :> <<".", ".">> @@
    "J" :> <<".", "-", "-", "-">> @@ "K" :> <<"-", ".", "-">> @@
    "L" :> <<".", "-", ".", ".">> @@ "M" :> <<"-", "-">> @@ "N" :> <<"-", ".">> @@
    "O" :> <<"-", "-", "-">> @@ "P" :> <<".", "-", "-", ".">> @@
    "Q" :> <<"-", "-", ".", "-">> @@ "R" :> <<".", "-", ".">> @@
    "S" :> <<".", ".", ".">> @@ "T" :> <<"-">> @@ "U" :> <<".", ".", "-">> @@
    "V" :> <<".", ".", ".", "-">> @@ "W" :> <<".", "-", "-">> @@
    "X" :> <<"-", ".", ".", "-">> @@ "Y" :> <<"-", ".", "-", "-">> @@
    "Z" :> <<"-", "-", ".", ".">> @@ "0" :> <<"-", "-", "-", "-", "-">> @@
    "1" :> <<".", "-", "-", "-", "-">> @@ "2" :> <<".", ".", "-", "-", "-">> @@
    "3" :> <<".", ".", ".", "-", "-">> @@ "4" :> <<".", ".", ".", ".", "-">> @@
    "5" :> <<".", ".", ".", ".", ".">> @@ "6" :> <<"-", ".", ".", ".", ".">> @@
    "7" :> <<"-", "-", ".", ".", ".">> @@ "8" :> <<"-", "-", "-", ".", ".">> @@
    "9" :> <<"-", "-", "-", "-", ".">> @@ " " :> <<" ">> @@
    "." :> <<".", "-", ".", "-", ".", "-">> @@ "," :> <<"-", "-", ".", ".", "-", "-">> @@
    "!" :> <<"-", ".", "-", ".", "-", "-">> @@ "?" :> <<".", ".", "-", "-", ".", ".">> @@
    ";" :> <<"-", ".", "-", ".", "-", ".">> @@ ":" :> <<"-", "-", "-", ".", ".", ".">> @@
    "-" :> <<"-", ".", ".", ".", ".", "-">> @@ "(" :> <<"-", ".", "-", "-", ".">> @@
    ")" :> <<"-", ".", "-", "-", ".", "-">> @@ "[" :> <<"-", ".", "-", "-", ".">> @@
    "]" :> <<"-", ".", "-", "-", ".", "-">> @@ "{" :> <<"-", ".", "-", "-", ".">> @@
    "}" :> <<"-", ".", "-", "-", ".", "-">> @@ "@" :> <<".", "-", "-", ".", "-", ".">> @@
    "#" :> <<".", ".", ".", ".", "-", "-">> @@
    "$" :> <<".", ".", ".", "-", ".", ".", "-">> @@
    "%" :> <<".", "-", "-", ".", "-", "-">> @@ "^" :> <<".", "-", ".", ".", ".">> @@
    "&" :> <<".", "-", ".", ".", ".">> @@ "*" :> <<"-", ".", ".", "-">> @@
    "+" :> <<".", "-", ".", "-", ".">> @@ "=" :> <<"-", ".", ".", ".", "-">> @@
    "_" :> <<".", ".", "-", "-", ".", "-">> @@ "~" :> <<".", "-", "-", ".", ".">> @@
    "`" :> <<".", "-", "-", "-", "-", ".">> @@ "<" :> <<".", "-", ".", ".", "-">> @@
    ">" :> <<".", "-", ".", ".", "-", ".">> @@ "\"" :> <<".", "-", ".", ".", "-", ".">> @@
    "'" :> <<".", "-", "-", "-", "-", ".">> @@ "|" :> <<"-", ".", ".", "-", ".">> @@
    "\\" :> <<".", "-", "-", "-", "-">>

\* Variant: a lookup without the default pattern.
MorseGetNoDefault(char) ==
    IF char \in DOMAIN LUXBIN_TO_MORSE THEN LUXBIN_TO_MORSE[char] ELSE <<>>

\* dict.get(char, '....'), line 145.
MorseGet(char) ==
    IF char \in DOMAIN LUXBIN_TO_MORSE THEN LUXBIN_TO_MORSE[char]
    ELSE <<".", ".", ".", ".">>

(***************************************************************************)
(* Bounds of the explored inputs.                                          *)
(***************************************************************************)
MaxLen == 3
MaxCallLen == 2
MaxNumLines == 5

Alphabet == {" ", "A", "S", "O", "a"}
CallAlphabet == {" ", "E"}
WaveValues == {500, 510}
SymbolValues == {".", "-"}
SpacingValues == {-1, 0, 1}

SeqsUpTo(S, n) == UNION {[1..m -> S] : m \in 0..n}

\* Inputs of the first encode call on a new encoder: every short text over
\* Alphabet (which holds "SOS" at MaxLen = 3) and "E", with every short array
\* over WaveValues and the array <<500, 510, 520>>.
Texts == SeqsUpTo(Alphabet, MaxLen) \cup {<<"E">>}
WaveArrays == SeqsUpTo(WaveValues, MaxLen) \cup {<<500, 510, 520>>}
\* Inputs of the calls made one after another on the same encoder.
CallTexts == SeqsUpTo(CallAlphabet, MaxCallLen)
CallWaveArrays == {<<>>, <<500>>, <<510, 500>>, <<500, 510, 520>>}
NumLinesValues == (0..MaxNumLines) \cup {NUM_COMB_LINES, NUM_COMB_LINES + 1}

(***************************************************************************)
(* FrequencyCombGenerator, lines 50-100.                                   *)
(***************************************************************************)
\* Variant: a constructor that rejects an even num_lines and a non-positive
\* comb_spacing.
FrequencyCombGeneratorValidated(pump_wavelength, comb_spacing, num_lines, kerr_coeff) ==
    [raised |-> (num_lines % 2 = 0 \/ comb_spacing <= 0),
     pump_wavelength |-> pump_wavelength,
     comb_spacing |-> comb_spacing,
     num_lines |-> num_lines,
     kerr_coeff |-> kerr_coeff]

\* __init__, lines 53-58: the four arguments are stored, nothing is checked.
\* `raised' records whether the constructor raised.
FrequencyCombGenerator(pump_wavelength, comb_spacing, num_lines, kerr_coeff) ==
    [raised |-> FALSE,
     pump_wavelength |-> pump_wavelength,
     comb_spacing |-> comb_spacing,
     num_lines |-> num_lines,
     kerr_coeff |-> kerr_coeff]

\* range(-self.num_lines//2, self.num_lines//2 + 1), line 72.  Python parses
\* -n//2 as (-n)//2, and // rounds towards minus infinity, as \div does.
CombRangeFirst(self) == (-self.num_lines) \div 2
CombRangeLast(self) == self.num_lines \div 2

\* The loop body, lines 73-92.  frequency_hz = base_freq + freq_shift is kept
\* as the pair (wavelength the base frequency comes from, shift in 1e11 Hz),
\* intensity = base * exp(-|i| * kerr_coeff) as the pair (base, exponent),
\* both in tenths; wavelength_nm is a function of frequency_hz.
CombLine(self, character_wavelength, morse_symbol, i) ==
    [frequency_hz |-> [base |-> character_wavelength,
                       shift |-> i * self.comb_spacing],
     intensity |-> [base |-> IF morse_symbol = "." THEN 10 ELSE 25,
                    decay |-> (IF i < 0 THEN -i ELSE i) * self.kerr_coeff],
     comb_line |-> i,
     morse_symbol |-> morse_symbol]

\* generate_comb, lines 60-94: one line per i of the range, in order.
generate_comb(self, character_wavelength, morse_symbol) ==
    LET first == CombRangeFirst(self)
        last == CombRangeLast(self)
    IN  [k \in 1..(last - first + 1) |->
            CombLine(self, character_wavelength, morse_symbol, first + k - 1)]

(***************************************************************************)
(* LuxbinMorseLight, lines 102-198.                                        *)
(***************************************************************************)
\* __init__, lines 105-109.
LuxbinMorseLight ==
    [pulse_sequence |-> <<>>,
     time_axis |-> <<>>,
     wavelength_axis |-> <<>>,
     frequency_comb_gen |->
         FrequencyCombGenerator(PUMP_WAVELENGTH, COMB_SPACING,
                                NUM_COMB_LINES, KERR_NONLINEARITY)]

\* Variant: a space pulse that is dark like the other gaps.
SpacePulseDark(char) ==
    [wavelength_nm |-> 0, duration_ms |-> WORD_GAP, char |-> char,
     morse |-> "SPACE", is_gap |-> TRUE, num_comb_lines |-> 0]

\* The dict appended for a space, lines 135-143.
SpacePulse(char) ==
    [wavelength_nm |-> SPACE_WAVELENGTH, duration_ms |-> WORD_GAP, char |-> char,
     morse |-> "SPACE", is_gap |-> TRUE, num_comb_lines |-> 0]

\* Variant: every signal pulse gets the duration of a dot.
SignalPulseAllDots(self, base_wavelength, char, symbol) ==
    [wavelength_nm |-> base_wavelength, duration_ms |-> DOT_DURATION, char |-> char,
     morse |-> symbol, is_gap |-> FALSE,
     num_comb_lines |->
         Len(generate_comb(self.frequency_comb_gen, base_wavelength, symbol))]

\* The dict appended for a dot or a dash, lines 151-166.
SignalPulse(self, base_wavelength, char, symbol) ==
    LET comb_lines == generate_comb(self.frequency_comb_gen, base_wavelength, symbol)
        duration == IF symbol = "." THEN DOT_DURATION ELSE DASH_DURATION
    IN  [wavelength_nm |-> base_wavelength, duration_ms |-> duration, char |-> char,
         morse |-> symbol, is_gap |-> FALSE, num_comb_lines |-> Len(comb_lines)]

\* The dict appended between two symbols of a character, lines 170-178.
IntraCharGapPulse ==
    [wavelength_nm |-> 0, duration_ms |-> INTRA_CHAR_GAP, char |-> "",
     morse |-> "", is_gap |-> TRUE, num_comb_lines |-> 0]

\* Variant: a character gap carrying the wavelength of the space pulse.
CharGapPulseLit ==
    [wavelength_nm |-> SPACE_WAVELENGTH, duration_ms |-> CHAR_GAP, char |-> "",
     morse |-> "", is_gap |-> TRUE, num_comb_lines |-> 0]

\* The dict appended between two characters, lines 182-190.
CharGapPulse ==
    [wavelength_nm |-> 0, duration_ms |-> CHAR_GAP, char |-> "",
     morse |-> "", is_gap |-> TRUE, num_comb_lines |-> 0]

\* Variant: j < len(morse_pattern), a gap after the last symbol too.
IntraGapDueAfterLast(j, morse_pattern) == j <= Len(morse_pattern)

\* j < len(morse_pattern) - 1 for the 0-based j of line 169; j is 1-based here.
IntraGapDue(j, morse_pattern) == j < Len(morse_pattern)

\* Variant: i < len(luxbin) - 1 alone, a gap before a space too.
CharGapDueBeforeSpace(i, chars) == i < Len(chars)

\* i < len(luxbin) - 1 and luxbin[i+1] != ' ', line 181; i is 1-based here.
CharGapDue(i, chars) == i < Len(chars) /\ chars[i + 1] # " "

\* The loop over the symbols of one pattern, lines 148-178.
RECURSIVE PatternLoop(_, _, _, _, _, _)
PatternLoop(self, base_wavelength, char, morse_pattern, j, seq) ==
    IF j > Len(morse_pattern) THEN seq
    ELSE LET symbol == morse_pattern[j]
             withSignal ==
                 IF symbol \in {".", "-"}
                 THEN Append(seq, SignalPulse(self, base_wavelength, char, symbol))
                 ELSE seq
             withGap ==
                 IF IntraGapDue(j, morse_pattern)
                 THEN Append(withSignal, IntraCharGapPulse)
                 ELSE withSignal
         IN  PatternLoop(self, base_wavelength, char, morse_pattern, j + 1, withGap)

\* The pulses appended for a character that is not a space, lines 145-190.
CharPulses(self, base_wavelength, chars, i, seq) ==
    LET body == PatternLoop(self, base_wavelength, chars[i], MorseGet(chars[i]), 1, seq)
    IN  IF CharGapDue(i, chars) THEN Append(body, CharGapPulse) ELSE body

\* The loop over the characters, lines 130-190.  wavelengths[i] is read first
\* (line 131) and raises IndexError past the end of the array; the list built
\* so far is a local and is lost with the exception.
RECURSIVE EncodeLoop(_, _, _, _, _)
EncodeLoop(self, chars, waves, i, seq) ==
    IF i > Len(chars) THEN [status |-> "ok", seq |-> seq]
    ELSE IF i > Len(waves) THEN [status |-> "IndexError", seq |-> <<>>]
    ELSE LET base_wavelength == waves[i]
         IN  IF chars[i] = " "
             THEN EncodeLoop(self, chars, waves, i + 1,
                             Append(seq, SpacePulse(chars[i])))
             ELSE EncodeLoop(self, chars, waves, i + 1,
                             CharPulses(self, base_wavelength, chars, i, seq))

\* Variant: the loop appends to the sequence the encoder already stores.
encode_appending(self, chars, waves) ==
    EncodeLoop(self, chars, waves, 1, self.pulse_sequence)

\* encode_text_to_morse_light, lines 111-198: the loop starts from the empty
\* list of line 128.
encode_text_to_morse_light(self, chars, waves) ==
    EncodeLoop(self, chars, waves, 1, <<>>)

\* Variant: the stored sequence is replaced whether or not the loop ended.
StorePulseSequenceAlways(self, outcome) ==
    [self EXCEPT !.pulse_sequence = outcome.seq]

\* self.pulse_sequence = morse_light_sequence, line 192, reached only when
\* the loop ended without an exception.
StorePulseSequence(self, outcome) ==
    IF outcome.status = "ok" THEN [self EXCEPT !.pulse_sequence = outcome.seq]
    ELSE self

(***************************************************************************)
(* The state machine.                                                      *)
(***************************************************************************)
NoResult == [status |-> "none", seq |-> <<>>]
NoComb == [status |-> "none", lines |-> <<>>]
NoCall == [luxbin |-> <<>>, wavelengths |-> <<>>, result |-> NoResult]

DefaultGenArgs == [comb_spacing |-> COMB_SPACING, num_lines |-> NUM_COMB_LINES]

Init ==
    /\ encoder = LuxbinMorseLight
    /\ luxbin = <<>>
    /\ wavelengths = <<>>
    /\ result = NoResult
    /\ gen = FrequencyCombGenerator(PUMP_WAVELENGTH, COMB_SPACING,
                                    NUM_COMB_LINES, KERR_NONLINEARITY)
    /\ genArgs = DefaultGenArgs
    /\ comb = NoComb
    /\ prev = NoCall

\* encoder = LuxbinMorseLight()
NewEncoder ==
    /\ encoder' = LuxbinMorseLight
    /\ luxbin' = <<>>
    /\ wavelengths' = <<>>
    /\ result' = NoResult
    /\ UNCHANGED <<gen, genArgs, comb, prev>>

\* encoder.encode_text_to_morse_light(text), the collaborators returning
\* chars and waves for text.
EncodeCall(chars, waves) ==
    LET outcome == encode_text_to_morse_light(encoder, chars, waves)
    IN  /\ luxbin' = chars
        /\ wavelengths' = waves
        /\ result' = outcome
        /\ encoder' = StorePulseSequence(encoder, outcome)
        /\ UNCHANGED <<gen, genArgs, comb>>

\* Any call, on an encoder in any state earlier calls left it in.
Encode ==
    /\ ~encoder.frequency_comb_gen.raised
    /\ \E chars \in CallTexts, waves \in CallWaveArrays : EncodeCall(chars, waves)
    /\ prev' = IF result.status = "none" THEN prev
               ELSE [luxbin |-> luxbin, wavelengths |-> wavelengths, result |-> result]

\* The first call on a newly constructed encoder.
EncodeFirst ==
    /\ ~encoder.frequency_comb_gen.raised
    /\ result = NoResult
    /\ \E chars \in Texts, waves \in WaveArrays : EncodeCall(chars, waves)
    /\ UNCHANGED prev

\* gen = FrequencyCombGenerator(comb_spacing=s, num_lines=n)
NewGenerator ==
    /\ \E n \in NumLinesValues, s \in SpacingValues :
           /\ genArgs' = [comb_spacing |-> s, num_lines |-> n]
           /\ gen' = FrequencyCombGenerator(PUMP_WAVELENGTH, s, n, KERR_NONLINEARITY)
    /\ comb' = NoComb
    /\ UNCHANGED <<encoder, luxbin, wavelengths, result, prev>>

\* gen.generate_comb(w, symbol)
GenerateComb ==
    /\ ~gen.raised
    /\ \E w \in WaveValues, symbol \in SymbolValues :
           comb' = [status |-> "ok", lines |-> generate_comb(gen, w, symbol)]
    /\ UNCHANGED <<encoder, luxbin, wavelengths, result, gen, genArgs, prev>>

Next == Encode \/ NewEncoder

Spec == Init /\ [][Next]_vars

NextFirst == EncodeFirst \/ NewEncoder

SpecFirst == Init /\ [][NextFirst]_vars

\* A call whose text is one key of LUXBIN_TO_MORSE, with the array [500].
EncodeKey ==
    /\ ~encoder.frequency_comb_gen.raised
    /\ \E char \in DOMAIN LUXBIN_TO_MORSE : EncodeCall(<<char>>, <<500>>)
    /\ prev' = IF result.status = "none" THEN prev
               ELSE [luxbin |-> luxbin, wavelengths |-> wavelengths, result |-> result]

NextTable == EncodeKey \/ NewEncoder

SpecTable == Init /\ [][NextTable]_vars

NextComb == NewGenerator \/ GenerateComb

SpecComb == Init /\ [][NextComb]_vars

(***************************************************************************)
(* Vocabulary of the properties.                                           *)
(***************************************************************************)
Called == result.status # "none"
Returned == result.status = "ok"

\* The layout of a returned sequence: the pulses of character i start at
\* Start(chars, i), its own pulses (without a following character gap) end at
\* End(chars, i).
BodyLen(chars, i) ==
    IF chars[i] = " " THEN 1 ELSE 2 * Len(MorseGet(chars[i])) - 1

GapAfter(chars, i) ==
    chars[i] # " " /\ i < Len(chars) /\ chars[i + 1] # " "

RECURSIVE Start(_, _)
Start(chars, i) ==
    IF i = 1 THEN 1
    ELSE Start(chars, i - 1) + BodyLen(chars, i - 1)
         + (IF GapAfter(chars, i - 1) THEN 1 ELSE 0)

End(chars, i) == Start(chars, i) + BodyLen(chars, i) - 1

LayoutHolds == Len(result.seq) = Start(luxbin, Len(luxbin) + 1) - 1

IsWordGap(p) ==
    p.wavelength_nm = 637 /\ p.duration_ms = 35 /\ p.morse = "SPACE" /\ p.is_gap

IsIntraGap(p) == p.wavelength_nm = 0 /\ p.duration_ms = 5 /\ p.is_gap

IsCharGap(p) == p.wavelength_nm = 0 /\ p.duration_ms = 15

IsSignal(p, w, symbol) ==
    /\ ~p.is_gap
    /\ p.wavelength_nm = w
    /\ p.morse = symbol
    /\ p.duration_ms = (IF symbol = "." THEN 5 ELSE 15)

AllSpaces(chars) == \A i \in DOMAIN chars : chars[i] = " "

(***************************************************************************)
(* C1.                                                                     *)
(***************************************************************************)
\* C1 as stated: a space yields its word-gap pulse whatever the wavelength
\* array is, so a text of spaces only is encoded to one word-gap pulse per
\* space for every array, the empty one included.
C1_SpaceIgnoresWavelengths ==
    (Called /\ luxbin # <<>> /\ AllSpaces(luxbin)) =>
        /\ Returned
        /\ Len(result.seq) = Len(luxbin)
        /\ \A p \in DOMAIN result.seq : IsWordGap(result.seq[p])

\* C1 (amended): in every returned sequence each space character yields
\* exactly one pulse, with wavelength 637, duration 35, morse 'SPACE' and
\* is_gap true; the call reads wavelengths[i] for a space too, so the text
\* " " is encoded to that one pulse when the array has at least one entry and
\* raises IndexError when the array is empty.
C1_SpacePulse ==
    /\ Returned =>
        /\ LayoutHolds
        /\ \A i \in DOMAIN luxbin :
               luxbin[i] = " " =>
                   /\ End(luxbin, i) = Start(luxbin, i)
                   /\ IsWordGap(result.seq[Start(luxbin, i)])
        /\ Cardinality({p \in DOMAIN result.seq : result.seq[p].morse = "SPACE"})
               = Cardinality({i \in DOMAIN luxbin : luxbin[i] = " "})
    /\ (Called /\ luxbin = <<" ">>) =>
        IF wavelengths = <<>>
        THEN result.status = "IndexError"
        ELSE Returned /\ Len(result.seq) = 1 /\ IsWordGap(result.seq[1])

C1_Witness ==
    /\ Returned
    /\ \E i \in DOMAIN luxbin : luxbin[i] = " " /\ 1 < i /\ i < Len(luxbin)

(***************************************************************************)
(* C2.                                                                     *)
(***************************************************************************)
\* C2 as stated: every returned pulse has is_gap exactly when its wavelength
\* is 0.
C2_GapIffDark ==
    Returned =>
        \A p \in DOMAIN result.seq :
            result.seq[p].is_gap = (result.seq[p].wavelength_nm = 0)

\* C2 (amended): every returned pulse other than a word-gap ('SPACE') pulse
\* has is_gap exactly when its wavelength is 0; a word-gap pulse has is_gap
\* true and wavelength 637.
C2_GapIffDarkExceptSpace ==
    Returned =>
        \A p \in DOMAIN result.seq :
            IF result.seq[p].morse = "SPACE"
            THEN result.seq[p].is_gap /\ result.seq[p].wavelength_nm = 637
            ELSE result.seq[p].is_gap = (result.seq[p].wavelength_nm = 0)

C2_Witness ==
    /\ Returned
    /\ \E p, q, r \in DOMAIN result.seq :
           /\ result.seq[p].morse = "SPACE"
           /\ result.seq[q].wavelength_nm = 0
           /\ ~result.seq[r].is_gap

(***************************************************************************)
(* C3.                                                                     *)
(***************************************************************************)
\* C3: a character that is not a space, with wavelength w and pattern
\* s_1..s_k, yields 2k-1 pulses: the k signal pulses in pattern order (5 ms
\* for '.', 15 ms for '-', wavelength w) alternating with k-1 intra-character
\* gaps (wavelength 0, 5 ms), no gap after the last symbol; "E" with [500]
\* yields the one pulse {500, 5 ms, '.', not a gap}.
C3_CharacterExpansion ==
    /\ Returned =>
        /\ LayoutHolds
        /\ \A i \in DOMAIN luxbin :
               luxbin[i] # " " =>
                   LET pattern == MorseGet(luxbin[i])
                       k == Len(pattern)
                       s == Start(luxbin, i)
                   IN  /\ End(luxbin, i) = s + 2 * k - 2
                       /\ End(luxbin, i) <= Len(result.seq)
                       /\ \A j \in 1..k :
                              IsSignal(result.seq[s + 2 * (j - 1)],
                                       wavelengths[i], pattern[j])
                       /\ \A j \in 1..(k - 1) :
                              IsIntraGap(result.seq[s + 2 * j - 1])
                       /\ End(luxbin, i) < Len(result.seq) =>
                              ~IsIntraGap(result.seq[End(luxbin, i) + 1])
    /\ (Called /\ luxbin = <<"E">> /\ wavelengths = <<500>>) =>
        /\ Returned
        /\ Len(result.seq) = 1
        /\ IsSignal(result.seq[1], 500, ".")
        /\ result.seq[1].duration_ms = 5

C3_Witness ==
    /\ Returned
    /\ \E i \in DOMAIN luxbin : luxbin[i] = "A" /\ i < Len(luxbin)
    /\ \E i \in DOMAIN luxbin : luxbin[i] = "O"

(***************************************************************************)
(* C4.                                                                     *)
(***************************************************************************)
CharGapFollows(i) ==
    /\ End(luxbin, i) < Len(result.seq)
    /\ IsCharGap(result.seq[End(luxbin, i) + 1])

CharGapsOnlyAfterCharacters ==
    \A p \in DOMAIN result.seq :
        IsCharGap(result.seq[p]) =>
            \E i \in DOMAIN luxbin : p = End(luxbin, i) + 1

\* C4 as stated: a character gap directly follows the pulses of character i
\* exactly when i is not the last character and character i+1 is not a space;
\* there is no character gap anywhere else.
C4_GapAfterEveryCharacter ==
    Returned =>
        /\ \A i \in DOMAIN luxbin :
               CharGapFollows(i) <=> (i < Len(luxbin) /\ luxbin[i + 1] # " ")
        /\ CharGapsOnlyAfterCharacters

\* C4 (amended): a character gap directly follows the pulses of character i
\* exactly when character i is not a space, i is not the last character and
\* character i+1 is not a space; there is no character gap anywhere else,
\* and a run of spaces yields one word gap per space with nothing between.
C4_GapAfterNonSpace ==
    Returned =>
        /\ LayoutHolds
        /\ \A i \in DOMAIN luxbin :
               CharGapFollows(i) <=>
                   (luxbin[i] # " " /\ i < Len(luxbin) /\ luxbin[i + 1] # " ")
        /\ CharGapsOnlyAfterCharacters
        /\ \A i \in DOMAIN luxbin :
               (luxbin[i] = " " /\ i < Len(luxbin) /\ luxbin[i + 1] = " ") =>
                   /\ IsWordGap(result.seq[Start(luxbin, i)])
                   /\ IsWordGap(result.seq[Start(luxbin, i) + 1])

C4_Witness ==
    /\ Returned
    /\ \E i \in DOMAIN luxbin :
           i < Len(luxbin) /\ luxbin[i] = " " /\ luxbin[i + 1] \notin {" "}
    /\ \E i \in DOMAIN luxbin : CharGapFollows(i)

(***************************************************************************)
(* C5.                                                                     *)
(***************************************************************************)
RECURSIVE SumDurations(_)
SumDurations(seq) ==
    IF seq = <<>> THEN 0 ELSE Head(seq).duration_ms + SumDurations(Tail(seq))

RECURSIVE SymbolTotal(_)
SymbolTotal(pattern) ==
    IF pattern = <<>> THEN 0
    ELSE (IF Head(pattern) = "." THEN 5 ELSE 15) + SymbolTotal(Tail(pattern))

RECURSIVE DirectTotal(_, _)
DirectTotal(chars, i) ==
    IF i > Len(chars) THEN 0
    ELSE (IF chars[i] = " " THEN 35
          ELSE SymbolTotal(MorseGet(chars[i]))
               + 5 * (Len(MorseGet(chars[i])) - 1)
               + (IF i < Len(chars) /\ chars[i + 1] # " " THEN 15 ELSE 0))
         + DirectTotal(chars, i + 1)

\* C5 as stated: for a non-empty text the durations of the returned pulses
\* add up to the total of the table expansion (5 per dot, 15 per dash, 5 per
\* intra-character gap, 15 per character gap, 35 per space), a function of
\* the characters alone; "SOS" with [500, 510, 520] totals 105 ms.
C5_TotalDurationSOS105 ==
    /\ (Returned /\ luxbin # <<>>) =>
           SumDurations(result.seq) = DirectTotal(luxbin, 1)
    /\ (Called /\ luxbin = <<"S", "O", "S">> /\ wavelengths = <<500, 510, 520>>) =>
           Returned /\ SumDurations(result.seq) = 105

\* C5 (amended): the same, with the total of "SOS" being 135 ms: 25 for each
\* S (three dots, two intra-character gaps), 55 for O (three dashes of 15,
\* two intra-character gaps) and two character gaps of 15.
C5_TotalDuration ==
    /\ (Returned /\ luxbin # <<>>) =>
           SumDurations(result.seq) = DirectTotal(luxbin, 1)
    /\ (Called /\ luxbin = <<"S", "O", "S">> /\ wavelengths = <<500, 510, 520>>) =>
           Returned /\ SumDurations(result.seq) = 135

C5_Witness ==
    /\ Returned
    /\ luxbin = <<"S", "O", "S">>
    /\ wavelengths = <<500, 510, 520>>
    /\ SumDurations(result.seq) = 25 + 15 + 55 + 15 + 25

(***************************************************************************)
(* C6.                                                                     *)
(***************************************************************************)
\* C6: an encode call whose wavelength array is shorter than the character
\* sequence fails with an error, returns no sequence and leaves the
\* encoder's stored pulse_sequence as it was before the call.
C6_ShortArrayFailsAtomically ==
    [][(result'.status # "none" /\ Len(wavelengths') < Len(luxbin')) =>
           /\ result'.status = "IndexError"
           /\ result'.seq = <<>>
           /\ encoder'.pulse_sequence = encoder.pulse_sequence]_vars

C6_Witness ==
    /\ result.status = "IndexError"
    /\ Len(wavelengths) < Len(luxbin)
    /\ encoder.pulse_sequence # <<>>

(***************************************************************************)
(* C7.                                                                     *)
(***************************************************************************)
ValidConfig(args) == args.num_lines % 2 = 1 /\ args.comb_spacing > 0

\* C7 as stated: a constructor call with an even num_lines or a non-positive
\* comb_spacing is rejected, the default configuration of LuxbinMorseLight
\* included, so generate_comb never runs with such a configuration.
C7_InvalidConfigRejected ==
    /\ ~ValidConfig(genArgs) => (gen.raised /\ comb.status = "none")
    /\ ValidConfig(encoder.frequency_comb_gen) \/ encoder.frequency_comb_gen.raised

\* C7 (amended): the constructor checks nothing: every configuration, an
\* even num_lines or a non-positive comb_spacing included, is accepted and
\* stored as given, and generate_comb runs with it; the configuration
\* LuxbinMorseLight builds by default has the even num_lines 20.
C7_ConfigStoredUnchecked ==
    /\ ~gen.raised
    /\ gen.num_lines = genArgs.num_lines
    /\ gen.comb_spacing = genArgs.comb_spacing
    /\ ~encoder.frequency_comb_gen.raised
    /\ encoder.frequency_comb_gen.num_lines = 20
    /\ encoder.frequency_comb_gen.comb_spacing = 1
    /\ ENABLED GenerateComb
    /\ ENABLED Encode

C7_Witness ==
    /\ genArgs.num_lines % 2 = 0
    /\ genArgs.comb_spacing <= 0
    /\ comb.status = "ok"
    /\ comb.lines # <<>>

(***************************************************************************)
(* C8.                                                                     *)
(***************************************************************************)
\* C8: generate_comb returns exactly num_lines comb lines, and for an odd
\* num_lines N their comb_line indices are -(N div 2), ..., 0, ...,
\* +(N div 2), each once, in increasing order.
C8_CombSizeAndIndices ==
    comb.status = "ok" =>
        /\ Len(comb.lines) = gen.num_lines
        /\ gen.num_lines % 2 = 1 =>
               \A k \in DOMAIN comb.lines :
                   comb.lines[k].comb_line = k - 1 - (gen.num_lines \div 2)

\* What generate_comb returns instead: num_lines + 1 lines, with the indices
\* (-num_lines) div 2, ..., num_lines div 2.
C8_Observed ==
    comb.status = "ok" =>
        /\ Len(comb.lines) = gen.num_lines + 1
        /\ \A k \in DOMAIN comb.lines :
               comb.lines[k].comb_line = k - 1 - ((gen.num_lines + 1) \div 2)

C8_Witness ==
    /\ comb.status = "ok"
    /\ gen.num_lines = 21
    /\ Len(comb.lines) = 22
    /\ comb.lines[1].comb_line = -11
    /\ comb.lines[22].comb_line = 10

(***************************************************************************)
(* C9.                                                                     *)
(***************************************************************************)
EraseChar(seq) == [p \in DOMAIN seq |-> [seq[p] EXCEPT !.char = ""]]

\* C9: a character that is neither a space nor a key of LUXBIN_TO_MORSE is
\* no error and yields four dot pulses of 5 ms at its wavelength separated
\* by three intra-character gaps, the same pulses (up to the char field) as
\* 'H' yields at that wavelength.
C9_FallbackPattern ==
    /\ (Called /\ Len(wavelengths) >= Len(luxbin)) => Returned
    /\ Returned =>
        \A i \in DOMAIN luxbin :
            luxbin[i] \notin DOMAIN LUXBIN_TO_MORSE =>
                LET s == Start(luxbin, i)
                    body == SubSeq(result.seq, s, s + 6)
                IN  /\ s + 6 <= Len(result.seq)
                    /\ \A j \in {0, 2, 4, 6} :
                           IsSignal(result.seq[s + j], wavelengths[i], ".")
                    /\ \A j \in {1, 3, 5} : IsIntraGap(result.seq[s + j])
                    /\ s + 6 < Len(result.seq) =>
                           ~IsIntraGap(result.seq[s + 7])
                    /\ EraseChar(body) =
                           EraseChar(encode_text_to_morse_light(
                               LuxbinMorseLight, <<"H">>, <<wavelengths[i]>>).seq)

C9_Witness ==
    /\ Returned
    /\ \E i \in DOMAIN luxbin :
           luxbin[i] = "a" /\ i < Len(luxbin) /\ wavelengths[i] = 510

(***************************************************************************)
(* C10.                                                                    *)
(***************************************************************************)
SameInputsAsBefore ==
    /\ Called
    /\ prev.result.status # "none"
    /\ prev.luxbin = luxbin
    /\ prev.wavelengths = wavelengths

\* C10: a call returns what the call before it returned when both had the
\* same characters and wavelengths, and in any state of the encoder a call
\* returns what a newly constructed encoder returns for the same inputs: the
\* outcome does not depend on the stored pulse_sequence.
C10_SameInputsSameOutput ==
    /\ SameInputsAsBefore => result = prev.result
    /\ Called =>
           result = encode_text_to_morse_light(LuxbinMorseLight, luxbin, wavelengths)

C10_Witness ==
    /\ SameInputsAsBefore
    /\ Returned
    /\ result.seq # <<>>
    /\ result = prev.result

(***************************************************************************)
(* C11.                                                                    *)
(***************************************************************************)
\* The dots and dashes of the signal pulses of a sequence, in order.
SignalSymbols(seq) ==
    LET signals == SelectSeq(seq, LAMBDA p : ~p.is_gap)
    IN  [k \in DOMAIN signals |-> signals[k].morse]

TwoKeysEncoded ==
    /\ Returned
    /\ prev.result.status = "ok"
    /\ Len(luxbin) = 1
    /\ Len(prev.luxbin) = 1
    /\ luxbin[1] \in DOMAIN LUXBIN_TO_MORSE
    /\ prev.luxbin[1] \in DOMAIN LUXBIN_TO_MORSE
    /\ luxbin[1] # prev.luxbin[1]

\* C11: no two distinct keys of LUXBIN_TO_MORSE have the same pattern, so two
\* distinct keys encoded one after the other never yield the same dots and
\* dashes.
C11_PatternsUnique ==
    TwoKeysEncoded =>
        /\ LUXBIN_TO_MORSE[luxbin[1]] # LUXBIN_TO_MORSE[prev.luxbin[1]]
        /\ SignalSymbols(result.seq) # SignalSymbols(prev.result.seq)

\* C11, the case that fails: '[' encoded after '(' yields the dots and dashes
\* '-.--.' again.
C11_Witness ==
    /\ TwoKeysEncoded
    /\ prev.luxbin = <<"(">>
    /\ luxbin = <<"[">>
    /\ SignalSymbols(result.seq) = <<"-", ".", "-", "-", ".">>
    /\ SignalSymbols(prev.result.seq) = SignalSymbols(result.seq)

====
